---- MODULE Spec2Model ----
(***************************************************************************)
(* The crawl / extraction pipeline of services/data_scraper.py:            *)
(* crawl_and_scrape_site (the frontier loop), the two page fetchers, and   *)
(* extract_structured_data (the classifier call with its retry loop).      *)
(*                                                                         *)
(* A URL is the record urlparse() splits it into: host (netloc), path,     *)
(* query and fragment.  A page's anchors are the already joined absolute   *)
(* URLs (joined_url of fetch_page_content_and_links).                      *)
(***************************************************************************)
EXTENDS Integers, Sequences, FiniteSets, TLC

----------------------------------------------------------------------------
(* Bounds of the model *)

\* largest max_pages argument explored
MaxPagesBound == 2
\* largest number of anchors on one fetched page
MaxLinks == 1
\* largest number of items in one classifier response
MaxItems == 2
\* largest number of records in one batch handed to the store
MaxBatch == 2
\* largest number of store operations in one history
MaxStoreOps == 2
\* largest number of links on the page whose links are ordered
MaxOrderLinks == 4
\* largest number of profiles in the registry
MaxConfigs == 2
\* largest document height a page reports
MaxHeight == 3
\* largest number of scrolls after which a page's height has changed
MaxGrowth == 3

----------------------------------------------------------------------------
(* URLs *)

Hosts == {"example.com", "other.com"}
Paths == {"", "/t1"}
Queries == {"", "x=1"}
Fragments == {"", "f"}

URL == [host : Hosts, path : Paths, query : Queries, fragment : Fragments]

MkUrl(h, p, q, f) == [host |-> h, path |-> p, query |-> q, fragment |-> f]

\* start_url arguments explored: the fragment-free URLs of one host, one
\* URL with a fragment and no path, and one URL of the other host
Seeds == {u \in URL : u.host = "example.com" /\ u.fragment = ""}
           \cup {MkUrl("example.com", "", "", "f"),
                 MkUrl("other.com", "/t1", "", "")}

\* joined_url values a page's anchors resolve to: the fragment-free URLs
\* of the seed host, one in-page anchor ("#"), one URL of the other host
Anchors == {u \in URL : u.host = "example.com" /\ u.fragment = ""}
             \cup {MkUrl("example.com", "/t1", "", "f"),
                   MkUrl("other.com", "/t1", "", "")}

\* urljoin(base, ref) for a reference that is a bare path, as the crawl
\* calls it: an empty reference returns base unchanged; an absolute path
\* replaces the path and drops query and fragment.
urljoin(base, ref) ==
    IF ref = "" THEN base
    ELSE [host |-> base.host, path |-> ref, query |-> "", fragment |-> ""]

\* normalized_url = urljoin(current_url, urlparse(current_url).path)
normalized_url(u) == urljoin(u, u.path)

\* the URL with query string and fragment removed and the path preserved
StripQueryFragment(u) ==
    [host |-> u.host, path |-> u.path, query |-> "", fragment |-> ""]

\* any(pattern in joined_url for pattern in ignore_patterns); of the
\* patterns only "#" occurs in the URLs of the model
ignored(u) == u.fragment # ""

\* variant: the host of a link is not compared
same_netloc_m(joined, base) == TRUE

\* parsed_joined_url.netloc == base_url.netloc
same_netloc(joined, base) == joined.host = base.host

\* the links list fetch_page_content_and_links builds from the anchors
page_links(anchors, url) ==
    SelectSeq(anchors, LAMBDA a : ~ignored(a) /\ same_netloc(a, url))

\* link_keyword in link  (substring test on the URL text)
NoKeyword == "None"
Keywords == {"t1"}
keyword_in(kw, u) == kw = "t1" /\ u.path = "/t1"

\* lines 252-262: topic_links + other_links when a keyword is configured
\* variant: the links without the keyword are put first
order_links_m(new_links, link_keyword) ==
    IF link_keyword # NoKeyword
    THEN SelectSeq(new_links, LAMBDA l : ~keyword_in(link_keyword, l))
           \o SelectSeq(new_links, LAMBDA l : keyword_in(link_keyword, l))
    ELSE new_links

order_links(new_links, link_keyword) ==
    IF link_keyword # NoKeyword
    THEN SelectSeq(new_links, LAMBDA l : keyword_in(link_keyword, l))
           \o SelectSeq(new_links, LAMBDA l : ~keyword_in(link_keyword, l))
    ELSE new_links

\* lines 264-266: the links appended to urls_to_visit
links_to_append(new_links, visited) ==
    SelectSeq(new_links, LAMBDA l : l \notin visited)

SeqsUpTo(S, n) == UNION {[1..k -> S] : k \in 0..n}

Last(seq) == seq[Len(seq)]

----------------------------------------------------------------------------
(* Page content *)

TimeoutContent == "Error: Timed out waiting for page to load"
SeleniumErrorContent == "An error occurred with Selenium"
\* text of a rendered page: ordinary text (the empty text of a page with
\* no content element behaves the same), or text that itself begins with
\* "Error:"
PageTexts == {"text", "Error: text"}

\* content.startswith("Error:")
startswith_Error(c) == c \in {TimeoutContent, "Error: text"}

----------------------------------------------------------------------------
(* The classifier and its responses *)

\* max_retries = 3 ; delay = 5
max_retries == 3
initial_delay == 5

Fields == {"action_type", "communication_style", "outcome_rating"}
\* outcome_rating values a response may carry: inside and outside 1..5
Ratings == {3, 7}

\* one element of the parsed JSON list: an object with some of the fields
\* of CaregiverActionLog, or a value that is no object
Items == [kind : {"object"},
          has : {Fields, Fields \ {"outcome_rating"}, Fields \ {"action_type"}},
          rating : Ratings]
           \cup {[kind |-> "number", has |-> {}, rating |-> 0]}

\* the value json.loads returns: a list of items, or a value that is no
\* list of objects (iterating it, or ** on its elements, is a TypeError)
JsonLists == SeqsUpTo(Items, MaxItems)

\* response.text: optionally wrapped in a ```json fence; the body is
\* blank, text that is no JSON ("garbage"), the text of a JSON value that
\* is no list of items ("nonlist": a number, null, an object with keys),
\* or the text of a JSON list
Bodies == [json : {"blank", "garbage", "nonlist"}, data : {<<>>}]
            \cup [json : {"list"}, data : JsonLists]
Texts == [fenced : BOOLEAN, body : Bodies]

BlankText == [fenced |-> FALSE, body |-> [json |-> "blank", data |-> <<>>]]

\* the local "response": unbound until generate_content returns; then a
\* response without candidates, one whose text cannot be read, or one
\* with text
Unbound == [kind |-> "unbound", text |-> BlankText]
Response(kind, text) == [kind |-> kind, text |-> text]

\* the responses explored inside a crawl run: a blank text, and a list of
\* one well-formed record
CrawlTexts ==
    {BlankText,
     [fenced |-> TRUE,
      body |-> [json |-> "list",
                data |-> <<[kind |-> "object", has |-> Fields, rating |-> 3]>>]]}

\* response.text.strip().replace("```json", "").replace("```", "").strip()
cleaned_response(text) == text.body

\* variant: no item is rejected
validate_m(item) == "ok"

\* CaregiverActionLog(**item): "TypeError" when item is no mapping,
\* "ValidationError" when a required field is missing, else "ok".
\* The model declares outcome_rating: int with no bound.
validate(item) ==
    IF item.kind # "object" THEN "TypeError"
    ELSE IF item.has # Fields THEN "ValidationError"
    ELSE "ok"

CaregiverActionLog(item) ==
    [action_type |-> "feed", communication_style |-> "gentle",
     outcome_rating |-> item.rating]

RECURSIVE first_failure(_)
\* the exception the list comprehension of line 337 stops with ("ok" when
\* every item validates): items are built in order
first_failure(data) ==
    IF data = <<>> THEN "ok"
    ELSE IF validate(Head(data)) # "ok" THEN validate(Head(data))
    ELSE first_failure(Tail(data))

\* [CaregiverActionLog(**item) for item in data]
build_records(data) == [i \in 1..Len(data) |-> CaregiverActionLog(data[i])]

----------------------------------------------------------------------------
(* The caregiver_actions table *)

\* a row (action_type, communication_style, outcome_rating); the table is
\* the sequence of its rows in rowid order (the id column itself is left
\* out: no statement of the program reads it)
MkRecord(t, r) ==
    [action_type |-> t, communication_style |-> "gentle", outcome_rating |-> r]

\* the records explored: two that differ only in rating, one of another
\* action type
StoreRecords == {MkRecord("feed", 3), MkRecord("feed", 4), MkRecord("bath", 4)}

\* batches handed to save_data
Batches == SeqsUpTo(StoreRecords, MaxBatch)

\* data handed to seed_database: nothing, or seed rows that share action
\* and style and differ in rating (as SEED_DATA lines 38-39 do)
SeedBatches == {<<>>, <<MkRecord("feed", 3), MkRecord("feed", 4)>>}

\* tables found when an operation starts: as setup_database leaves a new
\* file, or with rows of earlier runs
InitTables == {<<>>, <<MkRecord("feed", 3)>>, <<MkRecord("bath", 4)>>,
               <<MkRecord("feed", 4), MkRecord("feed", 3)>>}

\* variant: the table is declared without the UNIQUE constraint
key_exists_m(tbl, rec) == FALSE

\* UNIQUE(action_type, communication_style, outcome_rating): rec is
\* already a row of tbl
key_exists(tbl, rec) == \E i \in DOMAIN tbl : tbl[i] = rec

\* variant: the row is inserted without the uniqueness test
insert_or_ignore_m(tbl, rec) == Append(tbl, rec)

\* INSERT OR IGNORE INTO caregiver_actions ... VALUES (?, ?, ?)
insert_or_ignore(tbl, rec) ==
    IF key_exists(tbl, rec) THEN tbl ELSE Append(tbl, rec)

RECURSIVE executemany(_, _)
\* cursor.executemany(INSERT OR IGNORE ..., records_to_insert)
executemany(tbl, records) ==
    IF records = <<>> THEN tbl
    ELSE executemany(insert_or_ignore(tbl, Head(records)), Tail(records))

\* SELECT COUNT(*) FROM caregiver_actions
row_count(tbl) == Len(tbl)

\* conn.total_changes after the executemany: the rows this connection
\* inserted (ignored rows are not counted)
total_changes(before, after) == Len(after) - Len(before)

\* save_data line 380: inserted_count = conn.total_changes - initial_row_count
inserted_count(before, after) == total_changes(before, after) - row_count(before)

Msg(text, n) == [msg |-> text, count |-> n]

\* what save_data prints (lines 362-364 and 386-387)
save_data_prints(data, before, after) ==
    IF data = <<>> THEN {Msg("No structured data was extracted to save", 0)}
    ELSE IF inserted_count(before, after) > 0
    THEN {Msg("Saved new records", inserted_count(before, after))}
    ELSE {}

\* what seed_database prints (lines 69-71 and 94-101)
seed_database_prints(data, before, after) ==
    IF data = <<>> THEN {Msg("No seed data provided", 0)}
    ELSE IF row_count(after) - row_count(before) > 0
    THEN {Msg("Successfully inserted new records",
              row_count(after) - row_count(before)),
          Msg("Total records", row_count(after))}
    ELSE {Msg("No new records were added", 0),
          Msg("Total records", row_count(after))}

\* the positions of the rows WHERE action_type = ? AND communication_style = ?
matching(tbl, t, st) ==
    {i \in DOMAIN tbl : tbl[i].action_type = t /\ tbl[i].communication_style = st}

\* row i with outcome_rating = outcome_rating + delta
bumped(tbl, i, delta) ==
    [tbl EXCEPT ![i].outcome_rating = tbl[i].outcome_rating + delta]

\* the UNIQUE index is checked as each row is written: the new value of
\* row i is the key of another row
conflicts(tbl, i, delta) ==
    \E j \in DOMAIN tbl : j # i /\ tbl[j] = bumped(tbl, i, delta)[i]

\* the order in which UPDATE visits the matching rows: by rowid, or the
\* other way round (the order is the query planner's choice)
ScanOrders == {"asc", "desc"}
next_row(rows, order) ==
    IF order = "asc" THEN CHOOSE i \in rows : \A j \in rows : i <= j
    ELSE CHOOSE i \in rows : \A j \in rows : i >= j

RECURSIVE update_rows(_, _, _, _)
\* UPDATE caregiver_actions SET outcome_rating = outcome_rating + ? ...:
\* the rows still to write are updated one at a time; the first conflict
\* raises sqlite3.IntegrityError and the statement's writes are undone
update_rows(tbl, rows, delta, order) ==
    IF rows = {} THEN [ok |-> TRUE, rows |-> tbl]
    ELSE LET i == next_row(rows, order)
         IN  IF conflicts(tbl, i, delta) THEN [ok |-> FALSE, rows |-> tbl]
             ELSE update_rows(bumped(tbl, i, delta), rows \ {i}, delta, order)

\* feedback_delta values explored
Deltas == {-1, 1}

\* the calls made on the store so far, and what the last one did
NoResult == [returned |-> "None", inserted_count |-> 0, printed |-> {},
             before |-> <<>>]
Call(op, data) == [op |-> op, data |-> data]

----------------------------------------------------------------------------
(* The registry of site profiles *)

\* the domain keys explored
Domains == {"example.com", "example", "other.com"}

\* config_domain in domain  (substring test on the host text)
domain_in(config_domain, domain) ==
    \/ config_domain = domain
    \/ config_domain = "example" /\ domain = "example.com"

\* an entry of site_configs.json
Profiles == [domain : Domains, target_element : {"div.post"},
             link_keyword : {NoKeyword} \cup Keywords, ocr : BOOLEAN]

\* load_site_configs: a dict keyed by domain, here the sequence of its
\* values in insertion order (the keys are pairwise different)
Registries ==
    {r \in SeqsUpTo(Profiles, MaxConfigs) :
        \A i, j \in DOMAIN r : r[i].domain = r[j].domain => i = j}

\* the fallback of line 75
default_config(domain) ==
    [domain |-> domain, target_element |-> "article", link_keyword |-> NoKeyword]

RECURSIVE first_match(_, _)
\* lines 71-73: the first entry, in dict order, whose domain is in the host
first_match(registry, domain) ==
    IF registry = <<>> THEN <<>>
    ELSE IF domain_in(Head(registry).domain, domain) THEN <<Head(registry)>>
    ELSE first_match(Tail(registry), domain)

\* get_site_config(url, configs), lines 67-75
get_site_config(url, registry) ==
    LET found == first_match(registry, url.host)
    IN  IF found = <<>> THEN default_config(url.host) ELSE found[1]

----------------------------------------------------------------------------
(* CognitiveEngine: options and their scores *)

\* a creativity_bias is counted in tenths (9 is 0.9), a score in units of
\* 0.00001 (95000 is 0.95)
Biases == {0, 2, 9, 15}

\* the profile argument of decide: has_bias says whether
\* cognitive_preferences gives a creativity_bias
EngineProfiles ==
    {[has_bias |-> FALSE, creativity_bias |-> 0]}
        \cup [has_bias : {TRUE}, creativity_bias : Biases]

\* interpretation["intent"], from the language understanding
Intents == {"unknown", "question", "emotional", "request_help"}

\* what decide is called with: the profile, whether the query matches a
\* tool-use intent, whether the learning system can handle the query
\* locally, and the intent found in the query
DecideArgs ==
    [profile : EngineProfiles, tool_intent : BOOLEAN,
     can_handle_locally : BOOLEAN, intent : Intents]

Option(type, score) == [type |-> type, score |-> score]

\* opt["score"] += 0.05 in binary floating point: 0.9 + 0.05 evaluates to
\* 0.9500000000000001, above the 0.95 of the tool option (the 1 stands
\* for that excess); the other sums keep their order against every score
\* of the model
boosted(score) == IF score = 90000 THEN 95001 ELSE score + 5000

\* lines 137-142: the options with the empathy boost applied
boost(options, intent) ==
    IF intent \in {"emotional", "request_help"}
    THEN [i \in DOMAIN options |->
             IF options[i].type \in {"local", "hybrid", "llm"}
             THEN Option(options[i].type, boosted(options[i].score))
             ELSE options[i]]
    ELSE options

\* where a stable descending sort puts o in an already sorted list: after
\* every option with a score at least its own
insert_desc(sorted, o) ==
    LET before == SelectSeq(sorted, LAMBDA x : x.score >= o.score)
        after == SelectSeq(sorted, LAMBDA x : x.score < o.score)
    IN  before \o <<o>> \o after

RECURSIVE sort_desc_from(_, _)
sort_desc_from(sorted, rest) ==
    IF rest = <<>> THEN sorted
    ELSE sort_desc_from(insert_desc(sorted, Head(rest)), Tail(rest))

\* sorted(options, key=lambda o: o["score"], reverse=True)
sort_desc(options) == sort_desc_from(<<>>, options)

\* _generate_options (lines 97-155) for a call with arguments a, reading
\* creativity_bias from the engine attribute (line 112)
generate_options(a, creativity_bias) ==
    LET tool == IF a.tool_intent THEN <<Option("tool_use", 95000)>> ELSE <<>>
        local == IF a.can_handle_locally THEN <<Option("local", 90000)>>
                 ELSE <<>>
        base == tool \o local
                  \o <<Option("hybrid", 70000 + creativity_bias * 500),
                       Option("llm", 60000 + creativity_bias * 500)>>
        creative == IF creativity_bias > 0
                    THEN <<Option("creative", 40000 + creativity_bias * 4000)>>
                    ELSE <<>>
    IN  sort_desc(boost(base, a.intent) \o creative)

\* _evaluate_and_select, line 202
evaluate_and_select(options) == options[1]

\* the request threads that call decide on the one engine
Threads == {1, 2}

\* a thread that is not inside decide
IdleCall ==
    [at |-> "idle",
     args |-> [profile |-> [has_bias |-> FALSE, creativity_bias |-> 0],
               tool_intent |-> FALSE, can_handle_locally |-> FALSE,
               intent |-> "unknown"],
     creativity_bias |-> 0, original_creativity |-> 0, scored_with |-> 0,
     options |-> <<>>, selected |-> Option("none", 0)]

----------------------------------------------------------------------------
(* State *)

VARIABLES
    start_url, max_pages, site_config,      \* arguments of the crawl
    urls_to_visit, visited_urls,            \* the frontier
    pages_crawled, all_structured_data,
    current_url, content,                   \* locals of the loop body
    pc,                                     \* position of the run
    error,                                  \* exception that left the run
    attempt, delay,                         \* extract_structured_data locals
    response,                               \* what generate_content returned
    structured_data,                        \* its return value
    classifier_log,                         \* generate_content calls of this call
    sleeps,                                 \* time.sleep(delay) of this call
    printed,                                \* messages printed by this call
    skipped_urls,                           \* lines of skipped_urls.log
    fetch_log,                              \* URLs handed to a page fetcher
    inter_page_sleep,                       \* time.sleep(1) of line 273 has
                                            \* run since the last page fetch
    table,                                  \* rows of caregiver_actions
    store_calls,                            \* operations made on the store
    last_result,                            \* outcome of the last of them
    links_found, links_ordered,             \* new_links at line 242 and at
                                            \* line 264, where a specification
                                            \* follows the page's links
    configs,                                \* site_configs, the registry
    ocr_heights,                            \* document.body.scrollHeight as
                                            \* read by the OCR fetcher
    ocr_screenshots,                        \* screenshots it has taken
    engine_config_bias,                     \* creativity_bias the engine was
                                            \* constructed with
    engine_creativity_bias,                 \* self.creativity_bias
    decide_calls                            \* the decide call of each thread

args == <<start_url, max_pages, site_config>>
frontier == <<urls_to_visit, visited_urls, pages_crawled>>
extract_vars == <<attempt, delay, response, structured_data,
                  classifier_log, sleeps, printed>>
store_vars == <<table, store_calls, last_result>>
\* what a crawl run does not touch
ocr_vars == <<ocr_heights, ocr_screenshots>>
engine_vars == <<engine_config_bias, engine_creativity_bias, decide_calls>>
outside == <<store_vars, links_found, links_ordered, configs, ocr_vars,
             engine_vars>>
vars == <<start_url, max_pages, site_config, urls_to_visit, visited_urls,
          pages_crawled, all_structured_data, current_url, content, pc,
          error, attempt, delay, response, structured_data, classifier_log,
          sleeps, printed, skipped_urls, fetch_log, table, store_calls,
          last_result, links_found, links_ordered, configs,
          inter_page_sleep, ocr_heights, ocr_screenshots,
          engine_config_bias, engine_creativity_bias, decide_calls>>

\* the store before any operation of the run
StoreUntouched ==
    /\ table = <<>>
    /\ store_calls = <<>>
    /\ last_result = NoResult

\* the OCR fetcher is not inside a page
OcrIdle ==
    /\ ocr_heights = <<>>
    /\ ocr_screenshots = 0

\* the engine as constructed, with the default creativity_bias of 0.2
\* (line 45), and no thread inside decide
EngineIdle ==
    /\ engine_config_bias = 2
    /\ engine_creativity_bias = 2
    /\ decide_calls = [t \in Threads |-> IdleCall]

\* no page's links are followed, and the registry is not consulted: the
\* profile is an argument of the crawl
NoLinksNoRegistry ==
    /\ links_found = <<>>
    /\ links_ordered = <<>>
    /\ configs = <<>>

SiteConfigs == [ocr : BOOLEAN, link_keyword : {NoKeyword} \cup Keywords]

\* lines 224-227, after the driver is set up
Init ==
    /\ start_url \in Seeds
    /\ max_pages \in 0..MaxPagesBound
    /\ site_config \in SiteConfigs
    /\ urls_to_visit = <<start_url>>
    /\ visited_urls = {}
    /\ all_structured_data = <<>>
    /\ pages_crawled = 0
    /\ current_url = start_url
    /\ content = ""
    /\ pc = "loop"
    /\ error = "none"
    /\ attempt = 0
    /\ delay = initial_delay
    /\ response = Unbound
    /\ structured_data = <<>>
    /\ classifier_log = <<>>
    /\ sleeps = <<>>
    /\ printed = {}
    /\ skipped_urls = <<>>
    /\ fetch_log = <<>>
    /\ inter_page_sleep = FALSE
    /\ OcrIdle
    /\ EngineIdle
    /\ StoreUntouched
    /\ NoLinksNoRegistry

----------------------------------------------------------------------------
(* crawl_and_scrape_site: the frontier loop, lines 229-276 *)

\* variant: the page limit is tested with <=
loop_test_m(queue, crawled, limit) == queue # <<>> /\ crawled <= limit

\* while urls_to_visit and pages_crawled < max_pages
loop_test(queue, crawled, limit) == queue # <<>> /\ crawled < limit

\* variant: the visited set is not consulted
already_visited_m(n, visited) == FALSE

\* normalized_url in visited_urls (line 232)
already_visited(n, visited) == n \in visited

\* visited_urls.add(normalized_url) (line 244)
mark_visited(visited, n) == visited \cup {n}

\* variant: the head is read but not removed
popleft_rest_m(queue) == queue

\* urls_to_visit.popleft(): what is left of the queue
popleft_rest(queue) == Tail(queue)

\* entry of extract_structured_data: lines 321-322
EnterExtract ==
    /\ attempt' = 0
    /\ delay' = initial_delay
    /\ response' = Unbound
    /\ structured_data' = <<>>
    /\ classifier_log' = <<>>
    /\ sleeps' = <<>>
    /\ printed' = {}

\* lines 244-268 for a fetch that returned (c, links): mark visited, stop
\* at "Error:", else order and enqueue the links and call the extractor
AfterFetch(url, c, links) ==
    LET n == normalized_url(url)
        visited == mark_visited(visited_urls, n)
        ordered == order_links(links, site_config.link_keyword)
    IN  /\ current_url' = url
        /\ content' = c
        /\ pages_crawled' = pages_crawled + 1
        /\ fetch_log' = Append(fetch_log, url)
        /\ visited_urls' = visited
        /\ IF startswith_Error(c)
           THEN /\ urls_to_visit' = popleft_rest(urls_to_visit)
                /\ pc' = "loop"
                /\ UNCHANGED extract_vars
           ELSE /\ urls_to_visit' = popleft_rest(urls_to_visit)
                                      \o links_to_append(ordered, visited)
                /\ pc' = "extract"
                /\ EnterExtract
        /\ inter_page_sleep' = FALSE
        /\ UNCHANGED <<args, outside, all_structured_data, error, skipped_urls>>

\* the loop test fails: driver.quit(), return all_structured_data
ExitLoop ==
    /\ pc = "loop"
    /\ ~loop_test(urls_to_visit, pages_crawled, max_pages)
    /\ pc' = "done"
    /\ UNCHANGED <<args, outside, inter_page_sleep, frontier, all_structured_data,
                   current_url, content,
                   error, extract_vars, skipped_urls, fetch_log>>

\* lines 230-233: the popped URL is already visited
SkipVisited ==
    /\ pc = "loop"
    /\ loop_test(urls_to_visit, pages_crawled, max_pages)
    /\ already_visited(normalized_url(Head(urls_to_visit)), visited_urls)
    /\ current_url' = Head(urls_to_visit)
    /\ urls_to_visit' = popleft_rest(urls_to_visit)
    /\ UNCHANGED <<args, outside, inter_page_sleep, visited_urls, pages_crawled,
                   all_structured_data,
                   content, pc, error, extract_vars, skipped_urls, fetch_log>>

CanFetch ==
    /\ pc = "loop"
    /\ loop_test(urls_to_visit, pages_crawled, max_pages)
    /\ ~already_visited(normalized_url(Head(urls_to_visit)), visited_urls)

\* fetch_page_content_and_links returns the page text and its links
FetchDom ==
    /\ CanFetch
    /\ ~site_config.ocr
    /\ \E anchors \in SeqsUpTo(Anchors, MaxLinks), text \in PageTexts :
          AfterFetch(Head(urls_to_visit), text,
                     page_links(anchors, Head(urls_to_visit)))

\* fetch_page_content_and_links: except TimeoutException (line 170)
FetchDomTimeout ==
    /\ CanFetch
    /\ ~site_config.ocr
    /\ AfterFetch(Head(urls_to_visit), TimeoutContent, <<>>)

\* fetch_page_content_and_links: except Exception (line 172)
FetchDomException ==
    /\ CanFetch
    /\ ~site_config.ocr
    /\ AfterFetch(Head(urls_to_visit), SeleniumErrorContent, <<>>)

\* fetch_page_content_with_ocr returns the recognised text; no links
FetchOcr ==
    /\ CanFetch
    /\ site_config.ocr
    /\ \E text \in PageTexts : AfterFetch(Head(urls_to_visit), text, <<>>)

\* fetch_page_content_with_ocr has no handler: an exception of the driver
\* leaves crawl_and_scrape_site at line 239
FetchOcrRaises ==
    /\ CanFetch
    /\ site_config.ocr
    /\ current_url' = Head(urls_to_visit)
    /\ urls_to_visit' = popleft_rest(urls_to_visit)
    /\ pages_crawled' = pages_crawled + 1
    /\ fetch_log' = Append(fetch_log, Head(urls_to_visit))
    /\ pc' = "raised"
    /\ error' = "WebDriverException"
    /\ inter_page_sleep' = FALSE
    /\ UNCHANGED <<args, outside, visited_urls, all_structured_data, content,
                   extract_vars, skipped_urls>>

\* lines 269-273 after extract_structured_data returned; the locals of
\* the call are gone
RecordExtracted ==
    /\ pc = "extract_returned"
    /\ all_structured_data' = all_structured_data \o structured_data
    /\ inter_page_sleep' = TRUE
    /\ pc' = "loop"
    /\ EnterExtract
    /\ UNCHANGED <<args, outside, frontier, current_url, content, error, skipped_urls,
                   fetch_log>>

----------------------------------------------------------------------------
(* extract_structured_data: the retry loop, lines 321-358 *)

\* variant: one attempt more than max_retries
CanCall_m == pc = "extract" /\ attempt <= max_retries

\* the for loop still has an attempt to make
CanCall == pc = "extract" /\ attempt < max_retries

\* model.generate_content(...) is called once more and raises
CallRaises(kind) ==
    /\ classifier_log' = Append(classifier_log, kind)
    /\ UNCHANGED response

\* model.generate_content(...) is called once more and returns r
CallReturns(r) ==
    /\ classifier_log' = Append(classifier_log, r.kind)
    /\ response' = r

\* return <result> after printing msgs; skip: the URL is appended to
\* skipped_urls.log
Return(result, msgs, skip) ==
    /\ pc' = "extract_returned"
    /\ structured_data' = result
    /\ printed' = printed \cup msgs
    /\ skipped_urls' = IF skip THEN Append(skipped_urls, current_url)
                       ELSE skipped_urls
    /\ UNCHANGED <<args, outside, inter_page_sleep, frontier, all_structured_data,
                   current_url, content,
                   error, attempt, delay, sleeps, fetch_log>>

\* an exception no handler of the loop catches leaves the function, and
\* with it crawl_and_scrape_site (the call of line 268 is unguarded)
Raise(exc, msgs) ==
    /\ pc' = "raised"
    /\ error' = exc
    /\ printed' = printed \cup msgs
    /\ UNCHANGED <<args, outside, inter_page_sleep, frontier, all_structured_data,
                   current_url, content,
                   attempt, delay, structured_data, sleeps, skipped_urls,
                   fetch_log>>

\* variant: the handler never writes the URL to the log
ValueErrorHandler_m(feedback) == Return(<<>>, {"value_error"}, FALSE)

\* except ValueError (lines 345-352): feedback says whether
\* response.prompt_feedback.block_reason.name can be read
ValueErrorHandler(feedback) ==
    IF feedback = "block_reason"
    THEN Return(<<>>, {"safety_block"}, TRUE)
    ELSE Return(<<>>, {"value_error"}, FALSE)

\* except (json.JSONDecodeError, TypeError) (lines 353-356), reached with
\* a response whose text can be read
DecodeErrorHandler == Return(<<>>, {"decode_error", "raw_response"}, FALSE)

\* response.prompt_feedback.block_reason.name (line 347): a response the
\* client returned carries its prompt feedback; with response unbound the
\* read fails and the inner handler of line 350 takes over
feedback_of(r) == IF r.kind = "unbound" THEN "unavailable" ELSE "block_reason"

\* variant: the delay grows by a fixed step
next_delay_m(d) == d + initial_delay

\* delay *= 2 (line 341)
next_delay(d) == d * 2

\* except exceptions.ResourceExhausted: sleep, double the delay, next attempt
RateLimited ==
    /\ CanCall
    /\ CallRaises("ResourceExhausted")
    /\ printed' = printed \cup {"rate_limit"}
    /\ sleeps' = Append(sleeps, delay)
    /\ delay' = next_delay(delay)
    /\ attempt' = attempt + 1
    /\ UNCHANGED <<args, outside, inter_page_sleep, frontier, all_structured_data,
                   current_url, content,
                   pc, error, response, structured_data, skipped_urls,
                   fetch_log>>

\* the loop ran out of attempts: lines 357-358
RetriesExhausted ==
    /\ pc = "extract"
    /\ attempt >= max_retries
    /\ UNCHANGED <<classifier_log, response>>
    /\ Return(<<>>, {"retries_exhausted"}, FALSE)

\* except exceptions.NotFound
ModelNotFound ==
    /\ CanCall
    /\ CallRaises("NotFound")
    /\ Return(<<>>, {"not_found"}, FALSE)

\* generate_content itself raises ValueError: response is unbound, the
\* inner handler prints and the function returns []
CallRaisesValueError ==
    /\ CanCall
    /\ CallRaises("ValueError")
    /\ ValueErrorHandler(feedback_of(response))

\* generate_content itself raises TypeError: the handler of line 353 reads
\* response.text with response unbound
CallRaisesTypeError ==
    /\ CanCall
    /\ CallRaises("TypeError")
    /\ Raise("UnboundLocalError", {"decode_error"})

\* any other exception of the client (ServiceUnavailable, InternalServerError,
\* DeadlineExceeded, PermissionDenied, ...): no except clause matches
CallRaisesOther ==
    /\ CanCall
    /\ CallRaises("OtherError")
    /\ Raise("OtherError", {})

\* not response.candidates (lines 326-330)
NoCandidates ==
    /\ CanCall
    /\ CallReturns(Response("no_candidates", BlankText))
    /\ Return(<<>>, {"no_candidates"}, TRUE)

\* response.text raises ValueError (the candidate carries no text)
TextRefused ==
    /\ CanCall
    /\ CallReturns(Response("text_refused", BlankText))
    /\ ValueErrorHandler(feedback_of(Response("text_refused", BlankText)))

\* lines 332-337 for a response whose text can be read
HandleText(text, feedback) ==
    LET cleaned == cleaned_response(text)
    IN  IF cleaned.json = "blank"
        THEN Return(<<>>, {"empty_response"}, FALSE)
        ELSE IF cleaned.json = "garbage"
        \* json.JSONDecodeError is a ValueError: the clause of line 345
        \* comes first
        THEN ValueErrorHandler(feedback)
        ELSE IF cleaned.json = "nonlist"
        THEN DecodeErrorHandler
        ELSE IF first_failure(cleaned.data) = "TypeError"
        THEN DecodeErrorHandler
        \* pydantic's ValidationError is a ValueError
        ELSE IF first_failure(cleaned.data) = "ValidationError"
        THEN ValueErrorHandler(feedback)
        ELSE Return(build_records(cleaned.data), {}, FALSE)

\* the classifier answers with text drawn from T
Responds(T) ==
    /\ CanCall
    /\ \E text \in T :
          /\ CallReturns(Response("text", text))
          /\ HandleText(text, feedback_of(Response("text", text)))

\* the classifier answers with some text
ClassifierResponds == Responds(Texts)

\* the same inside a crawl run
ClassifierRespondsInCrawl == Responds(CrawlTexts)

----------------------------------------------------------------------------
(* The store: save_data, seed_database, MommyAI.update_effectiveness *)

crawl_vars == <<args, frontier, all_structured_data, current_url, content,
                error, extract_vars, skipped_urls, fetch_log,
                links_found, links_ordered, configs, inter_page_sleep,
                ocr_vars, engine_vars>>

\* save_data(data, output_filename), lines 360-387
save_data(data) ==
    LET after == IF data = <<>> THEN table ELSE executemany(table, data)
    IN  /\ table' = after
        /\ store_calls' = Append(store_calls, Call("save_data", data))
        /\ last_result' =
               [returned |-> "None",
                inserted_count |-> IF data = <<>> THEN 0
                                   ELSE inserted_count(table, after),
                printed |-> save_data_prints(data, table, after),
                before |-> table]

\* seed_database(data, db_filename), seed_database.py lines 64-101
seed_database(data) ==
    LET after == IF data = <<>> THEN table ELSE executemany(table, data)
    IN  /\ table' = after
        /\ store_calls' = Append(store_calls, Call("seed_database", data))
        /\ last_result' =
               [returned |-> "None",
                inserted_count |-> row_count(after) - row_count(table),
                printed |-> seed_database_prints(data, table, after),
                before |-> table]

\* update_effectiveness(action_type, communication_style, feedback_delta),
\* mommy_ai.py lines 490-533: False when no row matches or the UPDATE
\* raises, True after the commit
update_effectiveness(t, st, delta, order) ==
    LET rows == matching(table, t, st)
        done == update_rows(table, rows, delta, order)
    IN  /\ table' = IF rows # {} /\ done.ok THEN done.rows ELSE table
        /\ store_calls' =
               Append(store_calls,
                      Call("update_effectiveness", <<MkRecord(t, delta)>>))
        /\ last_result' =
               [returned |-> IF rows = {} THEN "False: no row"
                             ELSE IF done.ok THEN "True"
                             ELSE "False: IntegrityError",
                inserted_count |-> 0,
                printed |-> {},
                before |-> table]

CanOperate == pc = "store" /\ Len(store_calls) < MaxStoreOps

SaveData ==
    /\ CanOperate
    /\ \E data \in Batches : save_data(data)
    /\ UNCHANGED <<crawl_vars, pc>>

SeedDatabase ==
    /\ CanOperate
    /\ \E data \in SeedBatches : seed_database(data)
    /\ UNCHANGED <<crawl_vars, pc>>

UpdateEffectiveness ==
    /\ CanOperate
    /\ \E t \in {"feed", "bath"}, delta \in Deltas, order \in ScanOrders :
           update_effectiveness(t, "gentle", delta, order)
    /\ UNCHANGED <<crawl_vars, pc>>

\* main, lines 408-409: save_data(all_scraped_data, OUTPUT_FILENAME) and
\* the closing line, after crawl_and_scrape_site has returned
MainSaveData ==
    /\ pc = "done"
    /\ save_data(all_structured_data)
    /\ pc' = "finished"
    /\ UNCHANGED crawl_vars

----------------------------------------------------------------------------
(* Specifications *)

\* the crawl variables of a state in which no crawl is running
NoCrawl ==
    /\ start_url = MkUrl("example.com", "", "", "")
    /\ max_pages = 0
    /\ site_config = [ocr |-> FALSE, link_keyword |-> NoKeyword]
    /\ urls_to_visit = <<>>
    /\ visited_urls = {}
    /\ all_structured_data = <<>>
    /\ pages_crawled = 0
    /\ current_url = start_url
    /\ content = ""
    /\ error = "none"
    /\ attempt = 0
    /\ delay = initial_delay
    /\ response = Unbound
    /\ structured_data = <<>>
    /\ classifier_log = <<>>
    /\ sleeps = <<>>
    /\ printed = {}
    /\ skipped_urls = <<>>
    /\ fetch_log = <<>>
    /\ inter_page_sleep = FALSE
    /\ OcrIdle
    /\ EngineIdle

\* operations on a database file that setup_database has prepared
InitStore ==
    /\ NoCrawl
    /\ pc = "store"
    /\ table \in InitTables
    /\ store_calls = <<>>
    /\ last_result = NoResult
    /\ NoLinksNoRegistry

StoreNext == SaveData \/ SeedDatabase \/ UpdateEffectiveness

SpecStore == InitStore /\ [][StoreNext]_vars

\* lines 252-266 for the page just fetched: the links are ordered, those
\* not in visited_urls are appended to the queue
EnqueueLinks ==
    /\ pc = "fetched"
    /\ links_ordered' = order_links(links_found, site_config.link_keyword)
    /\ urls_to_visit' = urls_to_visit \o links_to_append(links_ordered', visited_urls)
    /\ pc' = "extract"
    /\ UNCHANGED <<args, store_vars, ocr_vars, engine_vars, inter_page_sleep,
                   visited_urls,
                   pages_crawled,
                   all_structured_data, current_url, content, error,
                   extract_vars, skipped_urls, fetch_log, links_found, configs>>

\* the links of the seed's host that pass the filter of lines 128-141
SameHostLinks == {u \in Anchors : u.host = "example.com" /\ ~ignored(u)}

\* the crawl at line 250: the first page has been fetched and returned
\* links_found
InitOrder ==
    /\ start_url = MkUrl("example.com", "", "", "")
    /\ max_pages \in 1..MaxPagesBound
    /\ site_config \in {c \in SiteConfigs : ~c.ocr}
    /\ urls_to_visit = <<>>
    /\ visited_urls = {normalized_url(start_url)}
    /\ all_structured_data = <<>>
    /\ pages_crawled = 1
    /\ current_url = start_url
    /\ content = "text"
    /\ pc = "fetched"
    /\ error = "none"
    /\ attempt = 0
    /\ delay = initial_delay
    /\ response = Unbound
    /\ structured_data = <<>>
    /\ classifier_log = <<>>
    /\ sleeps = <<>>
    /\ printed = {}
    /\ skipped_urls = <<>>
    /\ fetch_log = <<start_url>>
    /\ inter_page_sleep = FALSE
    /\ OcrIdle
    /\ EngineIdle
    /\ StoreUntouched
    /\ links_found \in SeqsUpTo(SameHostLinks, MaxOrderLinks)
    /\ links_ordered = <<>>
    /\ configs = <<>>

OrderNext == EnqueueLinks

SpecOrder == InitOrder /\ [][OrderNext]_vars

\* a site of two forum threads: thread1 links to thread2 and to an
\* advertisement on another host, thread2 links back to thread1
Thread1 == MkUrl("example.com", "/forum/thread1", "", "")
Thread2 == MkUrl("example.com", "/forum/thread2", "", "")
Advert == MkUrl("other.com", "/ad", "", "")

forum_anchors(url) ==
    IF url = Thread1 THEN <<Thread2, Advert>>
    ELSE IF url = Thread2 THEN <<Thread1>>
    ELSE <<>>

\* fetch_page_content_and_links on the forum: the page loads
FetchForumPage ==
    /\ CanFetch
    /\ ~site_config.ocr
    /\ AfterFetch(Head(urls_to_visit), "text",
                  page_links(forum_anchors(Head(urls_to_visit)),
                             Head(urls_to_visit)))

\* crawl_and_scrape_site(Thread1, site_config, max_pages=3) with a DOM
\* profile
InitForum ==
    /\ start_url = Thread1
    /\ max_pages = 3
    /\ site_config \in {c \in SiteConfigs : ~c.ocr}
    /\ urls_to_visit = <<start_url>>
    /\ visited_urls = {}
    /\ all_structured_data = <<>>
    /\ pages_crawled = 0
    /\ current_url = start_url
    /\ content = ""
    /\ pc = "loop"
    /\ error = "none"
    /\ attempt = 0
    /\ delay = initial_delay
    /\ response = Unbound
    /\ structured_data = <<>>
    /\ classifier_log = <<>>
    /\ sleeps = <<>>
    /\ printed = {}
    /\ skipped_urls = <<>>
    /\ fetch_log = <<>>
    /\ inter_page_sleep = FALSE
    /\ OcrIdle
    /\ EngineIdle
    /\ StoreUntouched
    /\ NoLinksNoRegistry

\* main, line 402: site_config = get_site_config(target_url, site_configs)
GetSiteConfig ==
    /\ pc = "main"
    /\ site_config' = get_site_config(start_url, configs)
    /\ pc' = "configured"
    /\ UNCHANGED <<start_url, max_pages, frontier, inter_page_sleep, ocr_vars,
                   engine_vars,
                   all_structured_data,
                   current_url, content, error, extract_vars, skipped_urls,
                   fetch_log, store_vars, links_found, links_ordered, configs>>

\* main before line 402, site_configs loaded (line 401)
InitConfig ==
    /\ start_url \in Seeds
    /\ max_pages = 0
    /\ site_config = default_config("")
    /\ urls_to_visit = <<>>
    /\ visited_urls = {}
    /\ all_structured_data = <<>>
    /\ pages_crawled = 0
    /\ current_url = start_url
    /\ content = ""
    /\ pc = "main"
    /\ error = "none"
    /\ attempt = 0
    /\ delay = initial_delay
    /\ response = Unbound
    /\ structured_data = <<>>
    /\ classifier_log = <<>>
    /\ sleeps = <<>>
    /\ printed = {}
    /\ skipped_urls = <<>>
    /\ fetch_log = <<>>
    /\ inter_page_sleep = FALSE
    /\ OcrIdle
    /\ EngineIdle
    /\ StoreUntouched
    /\ links_found = <<>>
    /\ links_ordered = <<>>
    /\ configs \in Registries

ConfigNext == GetSiteConfig

SpecConfig == InitConfig /\ [][ConfigNext]_vars

\* main after the crawl of one page has returned: the page was fetched,
\* the classifier's records for it are all_structured_data
InitMain ==
    /\ start_url \in {MkUrl("example.com", "", "", ""),
                      MkUrl("example.com", "/t1", "", "")}
    /\ max_pages = 1
    /\ site_config = [ocr |-> FALSE, link_keyword |-> NoKeyword]
    /\ urls_to_visit = <<>>
    /\ visited_urls = {normalized_url(start_url)}
    /\ all_structured_data \in Batches
    /\ pages_crawled = 1
    /\ current_url = start_url
    /\ content = "text"
    /\ pc = "done"
    /\ error = "none"
    /\ attempt = 0
    /\ delay = initial_delay
    /\ response = Unbound
    /\ structured_data = <<>>
    /\ classifier_log = <<>>
    /\ sleeps = <<>>
    /\ printed = {}
    /\ skipped_urls = <<>>
    /\ fetch_log = <<start_url>>
    /\ inter_page_sleep = TRUE
    /\ OcrIdle
    /\ EngineIdle
    /\ table \in InitTables
    /\ store_calls = <<>>
    /\ last_result = NoResult
    /\ NoLinksNoRegistry

MainNext == MainSaveData

SpecMain == InitMain /\ [][MainNext]_vars


\* a direct call extract_structured_data(content, url)
InitExtract ==
    /\ start_url \in Seeds
    /\ max_pages = 0
    /\ site_config \in SiteConfigs
    /\ urls_to_visit = <<>>
    /\ visited_urls = {}
    /\ all_structured_data = <<>>
    /\ pages_crawled = 0
    /\ current_url = start_url
    /\ content \in {"text", SeleniumErrorContent}
    /\ pc = "extract"
    /\ error = "none"
    /\ attempt = 0
    /\ delay = initial_delay
    /\ response = Unbound
    /\ structured_data = <<>>
    /\ classifier_log = <<>>
    /\ sleeps = <<>>
    /\ printed = {}
    /\ skipped_urls = <<>>
    /\ fetch_log = <<>>
    /\ inter_page_sleep = FALSE
    /\ OcrIdle
    /\ EngineIdle
    /\ StoreUntouched
    /\ NoLinksNoRegistry

ExtractOutcome ==
    \/ RateLimited
    \/ RetriesExhausted
    \/ ModelNotFound
    \/ CallRaisesOther
    \/ CallRaisesValueError
    \/ CallRaisesTypeError
    \/ NoCandidates
    \/ TextRefused

ExtractNext == ExtractOutcome \/ ClassifierResponds

SpecExtract == InitExtract /\ [][ExtractNext]_vars

Next ==
    \/ ExitLoop
    \/ SkipVisited
    \/ FetchDom
    \/ FetchDomTimeout
    \/ FetchDomException
    \/ FetchOcr
    \/ FetchOcrRaises
    \/ RecordExtracted
    \/ ExtractOutcome
    \/ ClassifierRespondsInCrawl

Spec == Init /\ [][Next]_vars

\* the sequential program keeps running while a step is possible
FairSpec == Spec /\ WF_vars(Next)

\* variant: the loop stops when the height has not grown
heights_settled_m(new_height, last_height) == new_height <= last_height

\* if new_height == last_height: break  (line 105)
heights_settled(new_height, last_height) == new_height = last_height

\* the heights a page reports
Heights == 1..MaxHeight

\* the readings that differ from the one before: the page grew (or shrank)
\* between them
height_changes(heights) ==
    Cardinality({i \in 1..(Len(heights) - 1) : heights[i] # heights[i + 1]})

\* one pass of the loop of lines 97-107 that reads new_height: screenshot,
\* OCR, scroll to the bottom, sleep, read the height
OcrPass(new_height) ==
    /\ pc = "ocr"
    /\ ocr_screenshots' = ocr_screenshots + 1
    /\ ocr_heights' = Append(ocr_heights, new_height)
    /\ pc' = IF heights_settled(new_height, Last(ocr_heights))
             THEN "ocr_returned" ELSE "ocr"
    /\ UNCHANGED <<args, frontier, all_structured_data, current_url, content,
                   error, extract_vars, skipped_urls, fetch_log,
                   inter_page_sleep, store_vars, links_found, links_ordered,
                   configs, engine_vars>>

\* the page's height has changed since the last reading; a page changes
\* its height at most MaxGrowth times
OcrPageChanged ==
    /\ height_changes(ocr_heights) < MaxGrowth
    /\ \E h \in Heights \ {Last(ocr_heights)} : OcrPass(h)

\* the page's height is what it was at the last reading
OcrPageSettled ==
    /\ pc = "ocr"
    /\ OcrPass(Last(ocr_heights))

\* a call of the driver raises: the fetcher has no handler
OcrDriverRaises ==
    /\ pc = "ocr"
    /\ pc' = "raised"
    /\ error' = "WebDriverException"
    /\ UNCHANGED <<args, frontier, all_structured_data, current_url, content,
                   extract_vars, skipped_urls, fetch_log, inter_page_sleep,
                   outside>>

\* fetch_page_content_with_ocr(driver, current_url) at line 96: the page
\* is loaded and last_height has been read
InitOcr ==
    /\ start_url = MkUrl("example.com", "", "", "")
    /\ max_pages \in 1..MaxPagesBound
    /\ site_config \in {c \in SiteConfigs : c.ocr}
    /\ urls_to_visit = <<>>
    /\ visited_urls = {}
    /\ all_structured_data = <<>>
    /\ pages_crawled = 1
    /\ current_url = start_url
    /\ content = ""
    /\ pc = "ocr"
    /\ error = "none"
    /\ attempt = 0
    /\ delay = initial_delay
    /\ response = Unbound
    /\ structured_data = <<>>
    /\ classifier_log = <<>>
    /\ sleeps = <<>>
    /\ printed = {}
    /\ skipped_urls = <<>>
    /\ fetch_log = <<start_url>>
    /\ inter_page_sleep = FALSE
    /\ StoreUntouched
    /\ NoLinksNoRegistry
    /\ ocr_heights \in {<<h>> : h \in Heights}
    /\ ocr_screenshots = 0
    /\ EngineIdle

OcrNext == OcrPageChanged \/ OcrPageSettled \/ OcrDriverRaises

SpecOcr == InitOcr /\ [][OcrNext]_vars

\* the fetcher keeps running while it can take a step
FairSpecOcr == SpecOcr /\ WF_vars(OcrNext)

\* what a call of decide leaves alone
engine_rest == <<args, frontier, all_structured_data, current_url, content,
                 pc, error, extract_vars, skipped_urls, fetch_log,
                 inter_page_sleep, store_vars, links_found, links_ordered,
                 configs, ocr_vars>>

\* decide, lines 274-282, in thread t: the per-user overrides are read;
\* the bias is the profile's, or the engine attribute as it is now
DecideCall(t, a) ==
    /\ pc = "engine"
    /\ decide_calls[t].at \in {"idle", "returned"}
    /\ decide_calls' =
           [decide_calls EXCEPT ![t] =
               [IdleCall EXCEPT
                   !.at = "perceived",
                   !.args = a,
                   !.creativity_bias =
                       IF a.profile.has_bias THEN a.profile.creativity_bias
                       ELSE engine_creativity_bias]]
    /\ UNCHANGED <<engine_config_bias, engine_creativity_bias, engine_rest>>

\* line 285: original_creativity = self.creativity_bias
SaveOriginal(t) ==
    /\ pc = "engine"
    /\ decide_calls[t].at = "perceived"
    /\ decide_calls' =
           [decide_calls EXCEPT
               ![t].at = "saved",
               ![t].original_creativity = engine_creativity_bias]
    /\ UNCHANGED <<engine_config_bias, engine_creativity_bias, engine_rest>>

\* line 287: self.creativity_bias = creativity_bias
SetBias(t) ==
    /\ pc = "engine"
    /\ decide_calls[t].at = "saved"
    /\ engine_creativity_bias' = decide_calls[t].creativity_bias
    /\ decide_calls' = [decide_calls EXCEPT ![t].at = "set"]
    /\ UNCHANGED <<engine_config_bias, engine_rest>>

\* line 288: _generate_options reads self.creativity_bias (line 112)
GenerateOptions(t) ==
    /\ pc = "engine"
    /\ decide_calls[t].at = "set"
    /\ decide_calls' =
           [decide_calls EXCEPT
               ![t].at = "generated",
               ![t].scored_with = engine_creativity_bias,
               ![t].options =
                   generate_options(decide_calls[t].args,
                                    engine_creativity_bias)]
    /\ UNCHANGED <<engine_config_bias, engine_creativity_bias, engine_rest>>

\* lines 289-307: the finally clause restores the attribute, the first of
\* the sorted options is selected and the trace returned
RestoreAndSelect(t) ==
    /\ pc = "engine"
    /\ decide_calls[t].at = "generated"
    /\ engine_creativity_bias' = decide_calls[t].original_creativity
    /\ decide_calls' =
           [decide_calls EXCEPT
               ![t].at = "returned",
               ![t].selected = evaluate_and_select(decide_calls[t].options)]
    /\ UNCHANGED <<engine_config_bias, engine_rest>>

\* what thread t does inside decide
DecideSteps(t) ==
    \/ SaveOriginal(t)
    \/ SetBias(t)
    \/ GenerateOptions(t)
    \/ RestoreAndSelect(t)

InitEngine ==
    /\ NoCrawl
    /\ pc = "engine"
    /\ StoreUntouched
    /\ NoLinksNoRegistry

\* one caller: a call starts after the one before it has returned
DecideNext ==
    \/ \E a \in DecideArgs : DecideCall(1, a)
    \/ DecideSteps(1)

SpecDecide == InitEngine /\ [][DecideNext]_vars

\* the calls of two request threads that overlap: neither query has a
\* tool intent or a local answer
RaceArgs ==
    {a \in DecideArgs : /\ ~a.tool_intent
                        /\ ~a.can_handle_locally
                        /\ a.intent = "unknown"}

\* the Flask server handles each request in a thread of its own
\* (mommy_ai.py line 1728) and the request handlers share the one engine
\* of the module-level MommyAI (line 1165): the steps of two calls of
\* decide interleave in any order
EngineNext ==
    \E t \in Threads :
        \/ \E a \in RaceArgs : DecideCall(t, a)
        \/ DecideSteps(t)

SpecEngine == InitEngine /\ [][EngineNext]_vars

\* a DOM crawl after its first iteration: the seed page had two links,
\* they were ordered and those not visited queued (lines 252-266), the
\* classifier found no record and the delay of line 273 has run
InitBacklog ==
    /\ start_url = MkUrl("example.com", "", "", "")
    /\ max_pages = 3
    /\ site_config \in {c \in SiteConfigs : ~c.ocr}
    /\ visited_urls = {normalized_url(start_url)}
    /\ urls_to_visit \in
          {links_to_append(order_links(l, site_config.link_keyword),
                           visited_urls) : l \in [1..2 -> SameHostLinks]}
    /\ all_structured_data = <<>>
    /\ pages_crawled = 1
    /\ current_url = start_url
    /\ content = "text"
    /\ pc = "loop"
    /\ error = "none"
    /\ attempt = 0
    /\ delay = initial_delay
    /\ response = Unbound
    /\ structured_data = <<>>
    /\ classifier_log = <<>>
    /\ sleeps = <<>>
    /\ printed = {}
    /\ skipped_urls = <<>>
    /\ fetch_log = <<start_url>>
    /\ inter_page_sleep = TRUE
    /\ OcrIdle
    /\ EngineIdle
    /\ StoreUntouched
    /\ NoLinksNoRegistry

\* the steps of a DOM crawl
BacklogNext ==
    \/ ExitLoop
    \/ SkipVisited
    \/ FetchDomTimeout
    \/ FetchDomException
    \/ FetchDom
    \/ RecordExtracted
    \/ ExtractOutcome
    \/ ClassifierRespondsInCrawl

SpecBacklog == InitBacklog /\ [][BacklogNext]_vars

\* the steps of the crawl that the forum allows (the branch of lines
\* 232-233 is never taken on it)
ForumNext ==
    \/ ExitLoop
    \/ FetchForumPage
    \/ RecordExtracted
    \/ ExtractOutcome
    \/ ClassifierRespondsInCrawl

SpecForum == InitForum /\ [][ForumNext]_vars

----------------------------------------------------------------------------
(* Properties *)


C2_BoundedCrawl ==
    /\ pages_crawled <= max_pages
    /\ Len(fetch_log) <= max_pages

\* the run stopped at the page limit with links still queued
C2_Witness ==
    /\ pc = "done"
    /\ max_pages >= 2
    /\ pages_crawled = max_pages
    /\ urls_to_visit # <<>>

\* C3: the frontier loop terminates, and when it exits normally the queue
\* is empty or pages_crawled = max_pages.
C3_LoopTerminates ==
    /\ <>(pc \in {"done", "raised"})
    /\ [](pc = "done" => (urls_to_visit = <<>> \/ pages_crawled = max_pages))

\* the run ended below the page limit after an iteration that only
\* skipped a visited URL
C3_Witness ==
    /\ pc = "done"
    /\ urls_to_visit = <<>>
    /\ pages_crawled < max_pages
    /\ fetch_log # <<>>
    /\ current_url # Last(fetch_log)

\* C4: every URL in the frontier queue, and every URL fetched, has the
\* host of the seed URL.
C4_SeedHostOnly ==
    /\ \A i \in DOMAIN urls_to_visit : urls_to_visit[i].host = start_url.host
    /\ \A i \in DOMAIN fetch_log : fetch_log[i].host = start_url.host

\* links found on a page other than the seed are waiting in the queue
C4_Witness ==
    /\ Len(fetch_log) >= 2
    /\ urls_to_visit # <<>>
    /\ Last(fetch_log) # start_url

\* C5: a link is appended to the queue only if its normalized URL is not
\* in the visited set at that moment.
C5_NoVisitedUrlQueued ==
    [][(pc = "loop" /\ pc' = "extract") =>
          \A i \in Len(urls_to_visit)..Len(urls_to_visit') :
              normalized_url(urls_to_visit'[i]) \notin visited_urls']_vars

\* C6: the dedup key of every fetched URL is the URL without query string
\* and fragment, and no two fetched URLs differ only in query or fragment.
C6_KeyStripsQueryAndFragment ==
    /\ \A n \in visited_urls :
          \E i \in DOMAIN fetch_log : n = StripQueryFragment(fetch_log[i])
    /\ \A i, j \in DOMAIN fetch_log :
          StripQueryFragment(fetch_log[i]) = StripQueryFragment(fetch_log[j])
              => i = j

AllRateLimited ==
    \A i \in DOMAIN classifier_log : classifier_log[i] = "ResourceExhausted"

\* C7: when every classifier call raises the rate-limit error, the call
\* of extract_structured_data makes exactly 3 classifier calls and returns
\* the empty list, and raises nothing.
C7_ThreeAttemptsThenEmpty ==
    AllRateLimited =>
        /\ pc # "raised"
        /\ Len(classifier_log) <= 3
        /\ pc = "extract_returned" =>
              (Len(classifier_log) = 3 /\ structured_data = <<>>)

\* the call returned after three rate-limited attempts
C7_Witness ==
    /\ pc = "extract_returned"
    /\ classifier_log = <<"ResourceExhausted", "ResourceExhausted",
                          "ResourceExhausted">>

\* C8: whatever the classifier call does, extract_structured_data raises
\* nothing, so no exception of the extraction ends the crawl run.
C8_ExtractionNeverRaises ==
    ~(pc = "raised" /\ classifier_log # <<>>)

\* C9: no record returned by the extraction has an outcome_rating outside
\* 1..5.
C9_RatingInRange ==
    pc = "extract_returned" =>
        \A i \in DOMAIN structured_data :
            structured_data[i].outcome_rating \in 1..5

HasItemLackingField(r) ==
    /\ r.kind = "text"
    /\ r.text.body.json = "list"
    /\ \E i \in DOMAIN r.text.body.data :
          /\ r.text.body.data[i].kind = "object"
          /\ r.text.body.data[i].has # Fields

\* C10: when one record of the classifier's response lacks a required
\* field, the call returns the empty list and raises nothing.
C10_BatchRejected ==
    (pc \in {"extract_returned", "raised"} /\ HasItemLackingField(response))
        => (pc = "extract_returned" /\ structured_data = <<>>)

\* a response of two records, the first well-formed and the second
\* lacking a field, has been answered
C10_Witness ==
    /\ pc = "extract_returned"
    /\ Len(response.text.body.data) = 2
    /\ response.text.body.data[1].has = Fields
    /\ response.text.body.data[1].kind = "object"
    /\ response.text.body.data[2].has # Fields
    /\ response.text.body.data[2].kind = "object"

\* C15: no failure of a page fetch, under either strategy, leaves the
\* crawl run as an exception.
C15_FetchFailureContained ==
    ~(pc = "raised" /\ error = "WebDriverException")

Declined(r) == r.kind \in {"no_candidates", "text_refused"}

\* C16: once the classifier has declined to answer, the call has returned
\* the empty list, the declining call was its last classifier call, and
\* the page's URL is in skipped_urls.log.
C16_DeclineIsTerminalAndLogged ==
    Declined(response) =>
        /\ pc = "extract_returned"
        /\ structured_data = <<>>
        /\ Last(classifier_log) = response.kind
        /\ skipped_urls = <<current_url>>

\* the text of the response was refused on the attempt after a rate limit
C16_Witness ==
    /\ pc = "extract_returned"
    /\ response.kind = "text_refused"
    /\ classifier_log = <<"ResourceExhausted", "text_refused">>

\* C17: when the response text is no valid JSON the call returns the
\* empty list and prints the raw response text.
C17_MalformedJsonLogged ==
    (pc \in {"extract_returned", "raised"}
       /\ response.kind = "text" /\ response.text.body.json = "garbage")
        => /\ pc = "extract_returned"
           /\ structured_data = <<>>
           /\ "raw_response" \in printed

\* no two rows of the table share action_type, communication_style and
\* outcome_rating
NoDuplicateKeys ==
    \A i, j \in DOMAIN table : table[i] = table[j] => i = j

LastCall == Last(store_calls)

\* the last two calls are save_data with the same batch
SavedTwice ==
    /\ Len(store_calls) >= 2
    /\ LastCall.op = "save_data"
    /\ store_calls[Len(store_calls) - 1] = LastCall

\* C11: saving the same batch a second time leaves the stored rows and
\* their count exactly as the first save left them.
C11_SaveDataIdempotent ==
    SavedTwice => (table = last_result.before
                     /\ row_count(table) = row_count(last_result.before))

C11_Witness ==
    /\ SavedTwice
    /\ Len(LastCall.data) = 2
    /\ store_calls[1].data # <<>>
    /\ row_count(table) > 1
    /\ table = last_result.before

\* C12: after any save_data, seed_database or update_effectiveness no two
\* rows share action type, communication style and outcome rating; an
\* operation that would create such a pair leaves the rows as they were.
C12_NaturalKeyUnique ==
    /\ NoDuplicateKeys
    /\ last_result.returned = "False: IntegrityError"
          => table = last_result.before
    /\ \A i \in DOMAIN last_result.before :
          LastCall.op \in {"save_data", "seed_database"}
              => table[i] = last_result.before[i]

C12_Witness ==
    /\ Len(store_calls) = 2
    /\ store_calls[1].op = "save_data"
    /\ LastCall.op = "update_effectiveness"
    /\ last_result.returned = "False: IntegrityError"
    /\ row_count(table) = 2

\* C13: the number of inserted rows that save_data computes is the number
\* of rows the call added to the table.
C13_InsertedCountIsNewRows ==
    (store_calls # <<>> /\ LastCall.op = "save_data")
        => last_result.inserted_count
             = row_count(table) - row_count(last_result.before)

Occurrences(seq, x) == Cardinality({i \in DOMAIN seq : seq[i] = x})

HasKeyword(l) == keyword_in(site_config.link_keyword, l)

\* C14: with a link_keyword the page's links are enqueued as a stable
\* partition, the links with the keyword first, each group in its original
\* order, no link dropped or duplicated; with no keyword the order is kept.
C14_StablePartition ==
    pc = "extract" =>
        /\ Len(links_ordered) = Len(links_found)
        /\ \A l \in SameHostLinks :
              Occurrences(links_ordered, l) = Occurrences(links_found, l)
        /\ site_config.link_keyword = NoKeyword => links_ordered = links_found
        /\ site_config.link_keyword # NoKeyword =>
              /\ \A i, j \in DOMAIN links_ordered :
                    (i < j /\ HasKeyword(links_ordered[j]))
                        => HasKeyword(links_ordered[i])
              /\ SelectSeq(links_ordered, HasKeyword)
                    = SelectSeq(links_found, HasKeyword)
              /\ SelectSeq(links_ordered, LAMBDA l : ~HasKeyword(l))
                    = SelectSeq(links_found, LAMBDA l : ~HasKeyword(l))
        /\ urls_to_visit
              = SelectSeq(links_ordered, LAMBDA l : l \notin visited_urls)

\* the links [a, b*, c, d*] have become [b*, d*, a, c]
C14_Witness ==
    /\ pc = "extract"
    /\ site_config.link_keyword = "t1"
    /\ Len(links_found) = 4
    /\ ~HasKeyword(links_found[1]) /\ HasKeyword(links_found[2])
    /\ ~HasKeyword(links_found[3]) /\ HasKeyword(links_found[4])
    /\ links_found[2] # links_found[4]
    /\ links_found[1] # links_found[3]
    /\ links_ordered = <<links_found[2], links_found[4],
                          links_found[1], links_found[3]>>

\* the registry's entries whose domain is a substring of the host
Matching(registry, url) ==
    {i \in DOMAIN registry : domain_in(registry[i].domain, url.host)}

\* the registries holding the same profiles, loaded in any order
Reorderings(registry) ==
    {r \in Registries :
        /\ Len(r) = Len(registry)
        /\ \A i \in DOMAIN registry : \E j \in DOMAIN r : r[j] = registry[i]}

\* C19: the default profile is returned exactly when no registered domain
\* is a substring of the host; otherwise a registered profile whose domain
\* is a substring of the host, the same one in whatever order the profiles
\* were loaded.
C19_ProfileIndependentOfLoadOrder ==
    pc = "configured" =>
        /\ Matching(configs, start_url) = {}
              <=> site_config = default_config(start_url.host)
        /\ Matching(configs, start_url) # {}
              => \E i \in Matching(configs, start_url) : site_config = configs[i]
        /\ \A r \in Reorderings(configs) :
              get_site_config(start_url, r) = site_config

\* C20: a run that completes has reported the number of pages visited
\* (the progress line of each fetch, numbered pages_crawled) and the number
\* of rows newly inserted, whether nothing was extracted, nothing was new,
\* or rows were added.
C20_RunReportsPagesAndInserted ==
    pc = "finished" =>
        /\ Len(fetch_log) = pages_crawled
        /\ \E m \in last_result.printed :
              /\ m.msg = "Saved new records"
              /\ m.count = row_count(table) - row_count(last_result.before)

\* C18: on the forum, seed thread1 and max_pages = 3: thread1 then thread2
\* are fetched and nothing else, other.com is never queued or fetched, and
\* the crawl ends because the queue is empty, with pages_crawled = 2 <
\* max_pages.
C18_ForumScenario ==
    /\ fetch_log \in {<<>>, <<Thread1>>, <<Thread1, Thread2>>}
    /\ \A i \in DOMAIN urls_to_visit : urls_to_visit[i].host # "other.com"
    /\ (pc = "loop" /\ urls_to_visit # <<>>)
          => ~already_visited(normalized_url(Head(urls_to_visit)), visited_urls)
    /\ pc # "raised"
    /\ pc = "done" =>
          /\ fetch_log = <<Thread1, Thread2>>
          /\ urls_to_visit = <<>>
          /\ pages_crawled = 2
          /\ pages_crawled < max_pages

\* the last page fetch failed: it timed out or raised another exception
FetchFailed == content \in {TimeoutContent, SeleniumErrorContent}

\* C23: after a failed page fetch the crawl makes no classifier call for
\* the page and takes nothing from it; it goes on with the next queued URL.
C23_FailedFetchNotClassified ==
    FetchFailed =>
        /\ pc \in {"loop", "done"}
        /\ classifier_log = <<>>

\* C24: when a page is about to be fetched after an earlier fetch of the
\* run, the inter-page delay has run since that earlier fetch, also when
\* the earlier fetch failed.
C24_DelayBetweenFetches ==
    (CanFetch /\ fetch_log # <<>>) => inter_page_sleep

\* the classifier calls of this extraction that were rate limited
RateLimitedCalls ==
    {i \in DOMAIN classifier_log : classifier_log[i] = "ResourceExhausted"}

\* C25: within one extraction the waits after successive rate-limit
\* failures are 5, 10, 20 in that order, one per failure; every page's
\* extraction starts again at 5; a call that succeeds after rate-limit
\* failures returns its records and no further call is made.
C25_BackoffSequence ==
    /\ sleeps \in {<<>>, <<5>>, <<5, 10>>, <<5, 10, 20>>}
    /\ Len(sleeps) = Cardinality(RateLimitedCalls)
    /\ (pc = "extract" /\ classifier_log = <<>>) => (delay = 5 /\ sleeps = <<>>)
    /\ (pc = "extract_returned" /\ structured_data # <<>>) =>
          /\ Last(classifier_log) = "text"
          /\ RateLimitedCalls = 1..(Len(classifier_log) - 1)
          /\ structured_data = build_records(cleaned_response(response.text).data)

\* on the second page of a run the classifier answered at the third call
C25_Witness ==
    /\ pc = "extract_returned"
    /\ Len(fetch_log) = 2
    /\ classifier_log = <<"ResourceExhausted", "ResourceExhausted", "text">>
    /\ sleeps = <<5, 10>>
    /\ structured_data # <<>>

\* C28: at the start of every iteration of the frontier loop the visited
\* set has as many members as pages were counted, and every counted page,
\* a failed fetch included, has added one new key to the set.
C28_VisitedSizeIsPagesCrawled ==
    /\ pc = "loop" => Cardinality(visited_urls) = pages_crawled
    /\ pages_crawled = Len(fetch_log)
    /\ Cardinality(visited_urls) = Len(fetch_log)

\* C27: with an OCR profile and max_pages >= 1 no link is ever queued,
\* the seed is the only page fetched, and the run ends normally with the
\* queue empty.
C27_OcrFetchesSeedOnly ==
    (site_config.ocr /\ max_pages >= 1) =>
        /\ urls_to_visit \in {<<start_url>>, <<>>}
        /\ fetch_log \in {<<>>, <<start_url>>}
        /\ pc # "raised"
        /\ pc = "done" => (fetch_log = <<start_url>> /\ urls_to_visit = <<>>)

\* C29: when a run is over, every record extracted during it has been
\* passed to save_data, in extraction order, also when the run ended with
\* a failure on a later page.
C29_ExtractedRecordsSaved ==
    (pc \in {"raised", "finished"} /\ all_structured_data # <<>>) =>
        /\ store_calls # <<>>
        /\ Last(store_calls) = Call("save_data", all_structured_data)

\* C26: the OCR fetcher takes one screenshot per pass and stops exactly
\* after the first scroll that leaves the height equal to the previous
\* reading; on a page whose height stops changing the loop ends.
C26_OcrLoopStops ==
    /\ [](pc \in {"ocr", "ocr_returned"} =>
            /\ ocr_screenshots = Len(ocr_heights) - 1
            /\ \A i \in 1..(Len(ocr_heights) - 2) :
                  ocr_heights[i] # ocr_heights[i + 1]
            /\ pc = "ocr_returned" <=>
                  (Len(ocr_heights) >= 2
                     /\ ocr_heights[Len(ocr_heights)]
                           = ocr_heights[Len(ocr_heights) - 1]))
    /\ <>(pc \in {"ocr_returned", "raised"})

\* the page grew twice, then a scroll left the height as it was
C26_Witness ==
    /\ pc = "ocr_returned"
    /\ ocr_heights = <<1, 2, 3, 3>>
    /\ ocr_screenshots = 3

\* the calls of decide that have returned
Returned == {t \in Threads : decide_calls[t].at = "returned"}

\* the bias a call is meant to score with: the profile's when it gives
\* one, else the engine's own
own_bias(a) ==
    IF a.profile.has_bias THEN a.profile.creativity_bias
    ELSE engine_config_bias

\* C21: when the learning system can handle the query locally, decide
\* selects the option of type "local".
C21_LocalSelectedWhenAvailable ==
    \A t \in Returned :
        decide_calls[t].args.can_handle_locally =>
            decide_calls[t].selected.type = "local"

\* C22: decide selects an option whose score is maximal among the options it
\* generated, the options being scored with the profile's creativity_bias
\* when the profile gives one; with a creativity_bias of 0.9, no local
\* answer and no tool intent, the selected option is "creative".
C22_MaxScoreWithProfileBias ==
    \A t \in Returned :
        LET c == decide_calls[t] IN
        /\ \A i \in DOMAIN c.options : c.selected.score >= c.options[i].score
        /\ \E i \in DOMAIN c.options : c.selected = c.options[i]
        /\ c.args.profile.has_bias =>
               c.scored_with = c.args.profile.creativity_bias
        /\ ( /\ c.args.profile.has_bias
             /\ c.args.profile.creativity_bias = 9
             /\ ~c.args.can_handle_locally
             /\ ~c.args.tool_intent ) => c.selected.type = "creative"

\* C30: once every call of decide has returned, the engine's
\* creativity_bias is the value set at construction, and each call scored
\* its options with its own caller's bias.
C30_BiasRestoredAndOwn ==
    (\A t \in Threads : decide_calls[t].at \in {"idle", "returned"}) =>
        /\ engine_creativity_bias = engine_config_bias
        /\ \A t \in Returned :
               decide_calls[t].scored_with = own_bias(decide_calls[t].args)


====
